---- MODULE Spec2Model ----
(***************************************************************************)
(* Robotics Radar: the storage ledger (storage/database.py), the           *)
(* single-writer ingestion path (scraper/*.store_items / store_articles)   *)
(* and the Smart Publisher (scraper/smart_publisher.py).                   *)
(*                                                                         *)
(* Time is wall-clock minutes.  SQLite compares the stored ISO timestamps  *)
(* as text; on equal-width UTC strings that order is the numeric order of  *)
(* the instants, which is what the integers below stand for.  The articles *)
(* table is modelled with the published_at column present, i.e. after      *)
(* scripts/add_published_at_column.py has been applied.  Persistence       *)
(* faults (a failing sqlite call) are not part of Spec.                    *)
(***************************************************************************)
EXTENDS Integers, Sequences, FiniteSets, TLC

\* ---------------------------------------------------------------- bounds
NumIds == 2
NumUrls == 2
MaxScore == 1
MaxTicks == 1
MaxFeedback == 3
MaxProcess == 2

\* ------------------------------------------------------ program constants
publish_interval == 30
NewWindowHours == 2

Ids == 1..NumIds
Urls == 1..NumUrls
Scores == 0..MaxScore
\* age of an item at the moment an adapter hands it over, in minutes
Ages == {120}
TickMinutes == {30}
BatchLens == {0, 1}
None == 0
Null == << >>
DeliveryOutcomes == {"ok", "fail", "raise"}
\* values accepted by the CHECK constraint of the feedback table
FeedbackCheck == {"like", "dislike", "rating_1", "rating_2", "rating_3", "rating_4", "rating_5"}
FeedbackInputs == {"like", "dislike", "rating_5", "approved"}
Users == {"u1", "u2"}
\* feedback types handed to process_feedback
ProcessInputs ==
    {"like", "rating_1", "rating_5", "rating_0", "rating_6", "rating_x",
     "rating_5_extra", "invalid", "approved", "skipped"}
\* the categories column read for the rated article: its stored list,
\* ['robotics_general'] when it has none, [] when the lookup fails
\* the adapter processes that store into one ledger
Adapters == {"reddit", "hackernews"}

CategoryLists == {<<"robotics_general">>, <<"drones", "robotics_general">>, << >>}

VARIABLES articles, feedback, feedback_seq, now, last_publish_time, last, sent, scoring,
          pending

vars == <<articles, feedback, feedback_seq, now, last_publish_time, last, sent, scoring,
          pending>>

\* last is the operation that ran last, with its arguments and return value;
\* sent is the set of items the running publisher process has delivered;
\* scoring is the ScoringWeights object of the feedback processor's model;
\* pending holds, per adapter process, the item that passed url_exists and
\* is not inserted yet.

\* ------------------------------------------------------------- the ledger
Article(id, url, score, created_at) ==
    [id |-> id, url |-> url, score |-> score, created_at |-> created_at]

Incoming(t) ==
    {Article(i, u, s, t - a) : i \in Ids, u \in Urls, s \in Scores, a \in Ages}

Row(a) ==
    [url |-> a.url, score |-> a.score, created_at |-> a.created_at, published_at |-> Null]

\* mutant: the lookup is made on the id column
url_exists_ById(tbl, url) ==
    Cardinality({i \in DOMAIN tbl : i = url}) > 0

\* SELECT COUNT(*) FROM articles WHERE url = ?  ...  count > 0
url_exists(tbl, url) ==
    Cardinality({i \in DOMAIN tbl : tbl[i].url = url}) > 0

\* INSERT OR REPLACE INTO articles (id, ..., summary): the row with the same
\* primary key is deleted and a new one written; published_at is not among
\* the listed columns, so the new row carries its default, NULL.
insert_article(tbl, a) ==
    [i \in DOMAIN tbl \cup {a.id} |-> IF i = a.id THEN Row(a) ELSE tbl[i]]

StoreOne(tbl, a) ==
    IF ~url_exists(tbl, a.url) THEN insert_article(tbl, a) ELSE tbl

RECURSIVE store_items(_, _)
store_items(tbl, batch) ==
    IF batch = << >> THEN tbl
    ELSE store_items(StoreOne(tbl, Head(batch)), Tail(batch))

RECURSIVE stored_count(_, _)
stored_count(tbl, batch) ==
    IF batch = << >> THEN 0
    ELSE (IF ~url_exists(tbl, Head(batch).url) THEN 1 ELSE 0)
         + stored_count(StoreOne(tbl, Head(batch)), Tail(batch))

\* store_items commits item by item, so a batch of n items leaves the ledger
\* as n successive batches of one item do; batches of at most one item are
\* drawn.
Batches(t) ==
    UNION {[1..n -> Incoming(t)] : n \in BatchLens}

\* mutant: the score is written with INSERT OR REPLACE, as insert_article
\* writes a row
update_article_score_Replace(tbl, id, score) ==
    [i \in DOMAIN tbl |->
        IF i = id THEN [tbl[i] EXCEPT !.score = score, !.published_at = Null] ELSE tbl[i]]

\* UPDATE articles SET score = ? WHERE id = ?
update_article_score(tbl, id, score) ==
    [i \in DOMAIN tbl |-> IF i = id THEN [tbl[i] EXCEPT !.score = score] ELSE tbl[i]]

\* UPDATE articles SET published_at = CURRENT_TIMESTAMP WHERE id = ?
mark_article_published(tbl, id, t) ==
    [i \in DOMAIN tbl |-> IF i = id THEN [tbl[i] EXCEPT !.published_at = <<t>>] ELSE tbl[i]]

mark_rowcount(tbl, id) ==
    Cardinality({i \in DOMAIN tbl : i = id})

Unpublished(tbl) ==
    {i \in DOMAIN tbl : tbl[i].published_at = Null}

\* ... AND created_at >= datetime('now', '-2 hours')
NewArticles(tbl, t) ==
    {i \in Unpublished(tbl) : tbl[i].created_at >= t - NewWindowHours * 60}

\* ORDER BY score DESC, created_at DESC LIMIT 1: the rows that may come first
FirstByScore(tbl, S) ==
    {i \in S : \A j \in S :
        \/ tbl[j].score < tbl[i].score
        \/ tbl[j].score = tbl[i].score /\ tbl[j].created_at <= tbl[i].created_at}

\* mutant: the first query (recent items) is left out
get_next_article_to_publish_NoTier(tbl, t) ==
    IF Unpublished(tbl) # {} THEN FirstByScore(tbl, Unpublished(tbl))
    ELSE {None}

\* the set of values the call may return (exact ties are left to SQLite)
get_next_article_to_publish(tbl, t) ==
    IF NewArticles(tbl, t) # {} THEN FirstByScore(tbl, NewArticles(tbl, t))
    ELSE IF Unpublished(tbl) # {} THEN FirstByScore(tbl, Unpublished(tbl))
    ELSE {None}

\* mutant: a plain INSERT into a table without the UNIQUE constraint
add_feedback_NoReplace(tbl, seq, article_id, user_id, feedback_type, t) ==
    IF feedback_type \in FeedbackCheck
    THEN tbl \cup {[id |-> seq + 1, article_id |-> article_id, user_id |-> user_id,
                     feedback_type |-> feedback_type, created_at |-> t]}
    ELSE tbl

\* INSERT OR REPLACE INTO feedback (article_id, user_id, feedback_type,
\* created_at): a CHECK failure aborts the statement; otherwise the row that
\* holds the same (article_id, user_id) is deleted (UNIQUE) and the new row
\* gets the next AUTOINCREMENT id.
add_feedback(tbl, seq, article_id, user_id, feedback_type, t) ==
    IF feedback_type \in FeedbackCheck
    THEN {r \in tbl : ~(r.article_id = article_id /\ r.user_id = user_id)}
         \cup {[id |-> seq + 1, article_id |-> article_id, user_id |-> user_id,
                 feedback_type |-> feedback_type, created_at |-> t]}
    ELSE tbl

\* SELECT feedback_type, COUNT(*) FROM feedback WHERE article_id = ?
\* GROUP BY feedback_type
get_article_feedback(tbl, article_id) ==
    [ft \in {r.feedback_type : r \in {x \in tbl : x.article_id = article_id}} |->
        Cardinality({r \in tbl : r.article_id = article_id /\ r.feedback_type = ft})]

\* ---------------------------------------------------------- the publisher
\* mutant: the comparison is turned around
should_publish_now_Inverted(lpt, t) ==
    IF lpt = Null THEN TRUE
    ELSE (t - lpt[1]) * 60 <= publish_interval * 60

should_publish_now(lpt, t) ==
    IF lpt = Null THEN TRUE
    ELSE (t - lpt[1]) * 60 >= publish_interval * 60

\* ------------------------------------------------------ the scoring model
\* weights, preferences and scores are fixed-point numbers, in thousandths
\* ScoringWeights(): the dataclass defaults, used when no configuration file
\* is read (category_weights and user_preferences are None, which Python
\* tests like the empty dict)
ScoringWeights ==
    [likes |-> 1000, retweets |-> 2000, replies |-> 1500, user_feedback |-> 3000,
     author_followers |-> 100, content_length |-> 500,
     category_weights |-> << >>, user_preferences |-> << >>]

\* dict.get(key, default)
Get(d, k, default) ==
    IF k \in DOMAIN d THEN d[k] ELSE default

\* d[key] = value
Put(d, k, v) ==
    [x \in DOMAIN d \cup {k} |-> IF x = k THEN v ELSE d[x]]

Max(a, b) ==
    IF a >= b THEN a ELSE b

Min(a, b) ==
    IF a <= b THEN a ELSE b

\* mutant: the category weight is stored without the 0.1 floor
update_user_preferences_NoFloor(w, category, rating) ==
    IF DOMAIN w.user_preferences = {} THEN w
    ELSE LET learning_rate == Get(w.user_preferences, "learning_rate", 100)
             current_pref == Get(w.user_preferences, category, 1000)
             normalized_rating == ((rating - 1) * 1000) \div 4
             new_pref == current_pref
                         + (learning_rate * (normalized_rating - current_pref)) \div 1000
         IN  [w EXCEPT
                !.category_weights =
                    IF DOMAIN w.category_weights # {}
                    THEN Put(w.category_weights, category, new_pref)
                    ELSE w.category_weights,
                !.user_preferences = Put(w.user_preferences, category, new_pref)]

\* ScoringModel.update_user_preferences
update_user_preferences(w, category, rating) ==
    IF DOMAIN w.user_preferences = {} THEN w
    ELSE LET learning_rate == Get(w.user_preferences, "learning_rate", 100)
             current_pref == Get(w.user_preferences, category, 1000)
             normalized_rating == ((rating - 1) * 1000) \div 4
             new_pref == current_pref
                         + (learning_rate * (normalized_rating - current_pref)) \div 1000
         IN  [w EXCEPT
                !.category_weights =
                    IF DOMAIN w.category_weights # {}
                    THEN Put(w.category_weights, category, Max(100, new_pref))
                    ELSE w.category_weights,
                !.user_preferences = Put(w.user_preferences, category, new_pref)]

\* for category in categories: update_user_preferences(category, rating)
RECURSIVE update_each(_, _, _)
update_each(w, categories, rating) ==
    IF categories = << >> THEN w
    ELSE update_each(update_user_preferences(w, Head(categories), rating),
                     Tail(categories), rating)

\* _adjust_scoring_weights: _get_feedback_statistics answers positive_ratio
\* 0.75 always, so user_feedback is multiplied by 1.1
adjust_scoring_weights(w) ==
    [w EXCEPT !.user_feedback = (w.user_feedback * 11) \div 10]

\* ------------------------------------------------ calculate_final_score
\* self.min_thresholds as _load_thresholds returns it without a config file
min_thresholds ==
    [min_likes |-> 10, min_retweets |-> 5, min_author_followers |-> 1000]

\* the sub-steps of calculate_final_score in which an exception may be
\* raised (a field of the wrong type, a malformed weight), and the body of
\* calculate_final_score itself
SubSteps == {"thresholds", "base", "recency", "feedback", "category", "final"}

\* math.log10(max(author_followers, 1)), in thousandths, for the follower
\* counts drawn
log10(n) ==
    CASE n <= 1 -> 0
      [] n = 99 -> 1995
      [] n = 100 -> 2000
      [] n = 999 -> 2999
      [] n = 1000 -> 3000

\* mutant: an exception inside the threshold check lets the item pass
meets_thresholds_FailOpen(tweet_data, fails) ==
    IF "thresholds" \in fails THEN TRUE
    ELSE IF tweet_data.likes = 0 /\ tweet_data.retweets = 0
         THEN tweet_data.author_followers >= 100
         ELSE /\ tweet_data.likes >= min_thresholds.min_likes
              /\ tweet_data.retweets >= min_thresholds.min_retweets
              /\ tweet_data.author_followers >= min_thresholds.min_author_followers

\* an exception inside _meets_thresholds is answered by False
meets_thresholds(tweet_data, fails) ==
    IF "thresholds" \in fails THEN FALSE
    ELSE IF tweet_data.likes = 0 /\ tweet_data.retweets = 0
         THEN tweet_data.author_followers >= 100
         ELSE /\ tweet_data.likes >= min_thresholds.min_likes
              /\ tweet_data.retweets >= min_thresholds.min_retweets
              /\ tweet_data.author_followers >= min_thresholds.min_author_followers

\* mutant: the bonus of the second step is smaller than that of the third
calculate_recency_bonus_Swapped(created_at, t, fails) ==
    IF "recency" \in fails \/ created_at = Null THEN 0
    ELSE LET minutes_ago == t - created_at[1] IN
         IF minutes_ago <= 1 * 60 THEN 50000
         ELSE IF minutes_ago <= 6 * 60 THEN 15000
         ELSE IF minutes_ago <= 24 * 60 THEN 30000
         ELSE IF minutes_ago <= 168 * 60 THEN 5000
         ELSE 0

\* _calculate_recency_bonus; hours_ago is compared in minutes
calculate_recency_bonus(created_at, t, fails) ==
    IF "recency" \in fails \/ created_at = Null THEN 0
    ELSE LET minutes_ago == t - created_at[1] IN
         IF minutes_ago <= 1 * 60 THEN 50000
         ELSE IF minutes_ago <= 6 * 60 THEN 30000
         ELSE IF minutes_ago <= 24 * 60 THEN 15000
         ELSE IF minutes_ago <= 168 * 60 THEN 5000
         ELSE 0

\* mutant: items without engagement start from 50
calculate_base_score_Base50(w, tweet_data, t, fails) ==
    IF "base" \in fails THEN 0
    ELSE LET recency_bonus == calculate_recency_bonus(tweet_data.created_at, t, fails)
             author_score == (log10(Max(tweet_data.author_followers, 1))
                              * w.author_followers) \div 1000
             content_score == (Min((tweet_data.content_length * 1000) \div 280, 1000)
                               * w.content_length) \div 1000
             engagement_score == tweet_data.likes * w.likes
                                 + tweet_data.retweets * w.retweets
                                 + tweet_data.replies * w.replies
         IN  IF tweet_data.likes = 0 /\ tweet_data.retweets = 0
             THEN 50000 + author_score + content_score + recency_bonus
             ELSE engagement_score + author_score + content_score + recency_bonus

\* an exception inside calculate_base_score is answered by 0.0
calculate_base_score(w, tweet_data, t, fails) ==
    IF "base" \in fails THEN 0
    ELSE LET recency_bonus == calculate_recency_bonus(tweet_data.created_at, t, fails)
             author_score == (log10(Max(tweet_data.author_followers, 1))
                              * w.author_followers) \div 1000
             content_score == (Min((tweet_data.content_length * 1000) \div 280, 1000)
                               * w.content_length) \div 1000
             engagement_score == tweet_data.likes * w.likes
                                 + tweet_data.retweets * w.retweets
                                 + tweet_data.replies * w.replies
         IN  IF tweet_data.likes = 0 /\ tweet_data.retweets = 0
             THEN 100000 + author_score + content_score + recency_bonus
             ELSE engagement_score + author_score + content_score + recency_bonus

apply_feedback_adjustment(base_score, feedback_data, fails) ==
    IF "feedback" \in fails THEN base_score
    ELSE LET likes == Get(feedback_data, "like", 0)
             dislikes == Get(feedback_data, "dislike", 0)
             total_feedback == likes + dislikes
         IN  IF total_feedback = 0 THEN base_score
             ELSE LET feedback_ratio == (likes * 1000) \div total_feedback
                      feedback_multiplier == 1000 + (feedback_ratio - 500) * 2
                  IN  (base_score * feedback_multiplier) \div 1000

RECURSIVE Sum(_)
Sum(seq) ==
    IF seq = << >> THEN 0 ELSE Head(seq) + Sum(Tail(seq))

calculate_category_score(w, tweet_data, fails) ==
    IF "category" \in fails THEN 1000
    ELSE IF DOMAIN w.category_weights = {} THEN 1000
    ELSE IF tweet_data.categories = << >> THEN 1000
    ELSE LET category_scores ==
                 [k \in 1..Len(tweet_data.categories) |->
                     Get(w.category_weights, tweet_data.categories[k], 1000)]
         IN  Sum(category_scores) \div Len(category_scores)

\* mutant: the result is not clamped at zero
calculate_final_score_NoClamp(w, tweet_data, feedback_data, t, fails) ==
    IF "final" \in fails THEN 0
    ELSE IF ~meets_thresholds(tweet_data, fails) THEN 0
    ELSE LET base_score == calculate_base_score(w, tweet_data, t, fails)
             final_score == IF DOMAIN feedback_data # {}
                            THEN apply_feedback_adjustment(base_score, feedback_data, fails)
                            ELSE base_score
             category_multiplier == calculate_category_score(w, tweet_data, fails)
         IN  (final_score * category_multiplier) \div 1000

\* mutant: an item that misses the thresholds is scored at a tenth
calculate_final_score_SoftGate(w, tweet_data, feedback_data, t, fails) ==
    IF "final" \in fails THEN 0
    ELSE LET base_score == calculate_base_score(w, tweet_data, t, fails)
             final_score == IF DOMAIN feedback_data # {}
                            THEN apply_feedback_adjustment(base_score, feedback_data, fails)
                            ELSE base_score
             category_multiplier == calculate_category_score(w, tweet_data, fails)
         IN  IF ~meets_thresholds(tweet_data, fails)
             THEN Max(0, (final_score * category_multiplier) \div 10000)
             ELSE Max(0, (final_score * category_multiplier) \div 1000)

\* ScoringModel.calculate_final_score at time t; feedback_data is a dict of
\* counts, empty when no tally is passed (None and {} are tested alike); an
\* exception in the body itself is answered by 0.0
calculate_final_score(w, tweet_data, feedback_data, t, fails) ==
    IF "final" \in fails THEN 0
    ELSE IF ~meets_thresholds(tweet_data, fails) THEN 0
    ELSE LET base_score == calculate_base_score(w, tweet_data, t, fails)
             final_score == IF DOMAIN feedback_data # {}
                            THEN apply_feedback_adjustment(base_score, feedback_data, fails)
                            ELSE base_score
             category_multiplier == calculate_category_score(w, tweet_data, fails)
         IN  Max(0, (final_score * category_multiplier) \div 1000)

\* ------------------------------------------- scores written to the ledger
\* RSSFetcher._calculate_rss_score with the default weights and no source or
\* tag bonus: 50 + 0.1 per character + max(0, 10 - age_hours / 24)
calculate_rss_score(content_length, age_hours) ==
    50000 + content_length * 100 + Max(0, 10000 - (age_hours * 1000) \div 24)

\* RedditScraper.calculate_reddit_score of a post of a subreddit and flair
\* without bonus: 50 + min(2 * upvotes, 100) + min(1.5 * comments, 50)
\* + max(0, 20 - age_hours / 6)
calculate_reddit_score(upvotes, comments, age_hours) ==
    50000 + Min(upvotes * 2000, 100000) + Min(comments * 1500, 50000)
    + Max(0, 20000 - (age_hours * 1000) \div 6)

\* the scores the adapters compute for the items they hand over
AdapterScores ==
    {calculate_rss_score(n, h) : n \in {0, 200}, h \in {0, 480}}
    \cup {calculate_reddit_score(u, 0, h) : u \in {0, 60}, h \in {0, 240}}

\* the signal columns of a stored row as update_all_scores reads them back
\* (an RSS item of a weighted category, a Reddit post)
StoredSignals ==
    {[likes |-> 0, retweets |-> 0, replies |-> 0, author_followers |-> 1000,
      content_length |-> 280, categories |-> <<"drones">>],
     [likes |-> 60, retweets |-> 0, replies |-> 0, author_followers |-> 0,
      content_length |-> 280, categories |-> <<"reddit_community">>]}

article_data(row, signals) ==
    [likes |-> signals.likes, retweets |-> signals.retweets, replies |-> signals.replies,
     author_followers |-> signals.author_followers,
     content_length |-> signals.content_length, categories |-> signals.categories,
     created_at |-> <<row.created_at>>]

Abs(x) ==
    IF x < 0 THEN 0 - x ELSE x

\* scripts/update_all_scores.py: every article is rescored and written back
\* when the score moved by more than 0.1
RECURSIVE update_all_scores(_, _, _, _, _)
update_all_scores(tbl, todo, signals, w, t) ==
    IF todo = {} THEN tbl
    ELSE LET i == CHOOSE x \in todo : TRUE
             new_score == calculate_final_score(w, article_data(tbl[i], signals[i]),
                                                << >>, t, {})
         IN  update_all_scores(
                 IF Abs(new_score - tbl[i].score) > 100
                 THEN update_article_score(tbl, i, new_score) ELSE tbl,
                 todo \ {i}, signals, w, t)

\* ------------------------------------------------- the feedback processor
\* feedback_type.split('_')
split(feedback_type) ==
    CASE feedback_type = "rating_1" -> <<"rating", "1">>
      [] feedback_type = "rating_5" -> <<"rating", "5">>
      [] feedback_type = "rating_0" -> <<"rating", "0">>
      [] feedback_type = "rating_6" -> <<"rating", "6">>
      [] feedback_type = "rating_x" -> <<"rating", "x">>
      [] feedback_type = "rating_5_extra" -> <<"rating", "5", "extra">>
      [] OTHER -> <<feedback_type>>

\* feedback_type.startswith('rating_')
startswith_rating(feedback_type) ==
    Len(split(feedback_type)) >= 2 /\ split(feedback_type)[1] = "rating"

\* int(token): the tokens int() parses, with their values; any other token
\* raises ValueError
int ==
    [token \in {"0", "1", "5", "6"} |->
        CASE token = "0" -> 0 [] token = "1" -> 1 [] token = "5" -> 5 [] token = "6" -> 6]

\* the validation at the head of process_feedback
valid_feedback_type(feedback_type) ==
    IF startswith_rating(feedback_type)
    THEN LET token == split(feedback_type)[2] IN
         IF token \in DOMAIN int THEN ~(int[token] < 1 \/ int[token] > 5) ELSE FALSE
    ELSE feedback_type \in {"like", "dislike"}

\* FeedbackProcessor.process_feedback after a stored submission:
\* _update_tweet_score changes nothing (it only reads and logs),
\* _update_user_preferences runs for ratings, _adjust_scoring_weights always
after_store(w, feedback_type, categories) ==
    adjust_scoring_weights(
        IF startswith_rating(feedback_type)
        THEN update_each(w, categories, int[split(feedback_type)[2]])
        ELSE w)

Op(op, arg, ret) ==
    [op |-> op, arg |-> arg, ret |-> ret, gate |-> "none", selected |-> None,
     delivery |-> "none", user |-> "", ftype |-> "", url |-> None, n |-> 0,
     error |-> "none"]

\* which way should_publish_now answered: no prior publish, interval elapsed,
\* or not yet time
GateBranch(lpt, t) ==
    IF ~should_publish_now(lpt, t) THEN "wait"
    ELSE IF lpt = Null THEN "first" ELSE "elapsed"

Init ==
    /\ articles = << >>
    /\ feedback = {}
    /\ feedback_seq = 0
    /\ now = 0
    /\ last_publish_time = Null
    /\ last = Op("init", None, TRUE)
    /\ sent = {}
    /\ scoring = ScoringWeights
    /\ pending = [a \in Adapters |-> << >>]

Tick ==
    \E d \in TickMinutes :
        /\ now + d <= MaxTicks * d
        /\ now' = now + d
        /\ last' = Op("sleep", None, TRUE)
        /\ UNCHANGED <<pending, scoring, articles, feedback, feedback_seq, last_publish_time, sent>>

\* one adapter's run_fetch_cycle: store_items / store_articles over a batch
FetchCycle ==
    \E batch \in Batches(now) :
        /\ batch # << >>
        /\ articles' = store_items(articles, batch)
        /\ last' = [Op("store_items", None, stored_count(articles, batch) > 0)
                      EXCEPT !.url = batch[1].url, !.n = Len(batch)]
        /\ UNCHANGED <<pending, scoring, feedback, feedback_seq, now, last_publish_time, sent>>

\* scripts/update_all_scores.py: one update_article_score call
UpdateArticleScore ==
    \E id \in Ids, s \in Scores :
        /\ id \in DOMAIN articles
        /\ articles[id].score # s
        /\ articles' = update_article_score(articles, id, s)
        /\ last' = Op("update_article_score", None, TRUE)
        /\ UNCHANGED <<pending, scoring, feedback, feedback_seq, now, last_publish_time, sent>>

\* a direct call of the ledger operation, with any id
MarkArticlePublished ==
    \E id \in Ids :
        /\ articles' = mark_article_published(articles, id, now)
        /\ last' = Op("mark_article_published", id, mark_rowcount(articles, id) > 0)
        /\ UNCHANGED <<pending, scoring, feedback, feedback_seq, now, last_publish_time, sent>>

\* a direct call of the selection query
GetNextArticleToPublish ==
    \E r \in get_next_article_to_publish(articles, now) :
        /\ last' = [Op("get_next_article_to_publish", None, r # None) EXCEPT !.selected = r]
        /\ UNCHANGED <<pending, scoring, articles, feedback, feedback_seq, now, last_publish_time, sent>>

\* mutant: the ingestion refresh runs before the interval check
CycleNotTime_FetchFirst ==
    \E batch \in Batches(now) :
        /\ ~should_publish_now(last_publish_time, now)
        /\ articles' = store_items(articles, batch)
        /\ last' = [Op("publish_cycle", None, TRUE) EXCEPT !.gate = "wait"]
        /\ UNCHANGED <<pending, scoring, feedback, feedback_seq, now, last_publish_time, sent>>

\* SmartPublisher.publish_cycle, with fetch_all_sources, get_next_article and
\* publish_single_article inlined.  First exit: not time to publish yet.
CycleNotTime ==
    /\ ~should_publish_now(last_publish_time, now)
    /\ last' = [Op("publish_cycle", None, TRUE) EXCEPT !.gate = "wait"]
    /\ UNCHANGED <<pending, scoring, articles, feedback, feedback_seq, now, last_publish_time, sent>>

\* mutant: the publish time is recorded although nothing was published
CycleNothing_StampsTime ==
    /\ should_publish_now(last_publish_time, now)
    /\ \E batch \in Batches(now) :
            LET fetched == store_items(articles, batch) IN
            /\ None \in get_next_article_to_publish(fetched, now)
            /\ articles' = fetched
            /\ last_publish_time' = <<now>>
            /\ last' = [Op("publish_cycle", None, TRUE) EXCEPT !.gate = GateBranch(last_publish_time, now)]
            /\ UNCHANGED <<pending, scoring, feedback, feedback_seq, now, sent>>

\* fetch_all_sources stored the batch, get_next_article returned None
CycleNothing ==
    /\ should_publish_now(last_publish_time, now)
    /\ \E batch \in Batches(now) :
            LET fetched == store_items(articles, batch) IN
            /\ None \in get_next_article_to_publish(fetched, now)
            /\ articles' = fetched
            /\ last' = [Op("publish_cycle", None, TRUE) EXCEPT !.gate = GateBranch(last_publish_time, now)]
            /\ UNCHANGED <<pending, scoring, feedback, feedback_seq, now, last_publish_time, sent>>

\* publish_single_article: send_single_article_sync returned True
CycleDelivered ==
    /\ should_publish_now(last_publish_time, now)
    /\ \E batch \in Batches(now) :
            LET fetched == store_items(articles, batch) IN
            \E sel \in get_next_article_to_publish(fetched, now) \ {None} :
                /\ articles' = mark_article_published(fetched, sel, now)
                /\ last_publish_time' = <<now>>
                /\ sent' = sent \cup {sel}
                /\ last' = [Op("publish_cycle", None, TRUE) EXCEPT
                              !.gate = GateBranch(last_publish_time, now),
                              !.selected = sel, !.delivery = "ok"]
                /\ UNCHANGED <<pending, scoring, feedback, feedback_seq, now>>

\* mutant: the item is marked published before the delivery result is read
CycleUndelivered_MarksAnyway ==
    /\ should_publish_now(last_publish_time, now)
    /\ \E batch \in Batches(now), outcome \in DeliveryOutcomes \ {"ok"} :
            LET fetched == store_items(articles, batch) IN
            \E sel \in get_next_article_to_publish(fetched, now) \ {None} :
                /\ articles' = mark_article_published(fetched, sel, now)
                /\ last' = [Op("publish_cycle", None, FALSE) EXCEPT
                              !.gate = GateBranch(last_publish_time, now),
                              !.selected = sel, !.delivery = outcome]
                /\ UNCHANGED <<pending, scoring, feedback, feedback_seq, now, last_publish_time, sent>>

\* publish_single_article: send_single_article_sync returned False or raised
\* (the raise is caught by publish_single_article, which returns False)
CycleUndelivered ==
    /\ should_publish_now(last_publish_time, now)
    /\ \E batch \in Batches(now), outcome \in DeliveryOutcomes \ {"ok"} :
            LET fetched == store_items(articles, batch) IN
            \E sel \in get_next_article_to_publish(fetched, now) \ {None} :
                /\ articles' = fetched
                /\ last' = [Op("publish_cycle", None, FALSE) EXCEPT
                              !.gate = GateBranch(last_publish_time, now),
                              !.selected = sel, !.delivery = outcome]
                /\ UNCHANGED <<pending, scoring, feedback, feedback_seq, now, last_publish_time, sent>>

PublishCycle ==
    \/ CycleNotTime
    \/ CycleNothing
    \/ CycleDelivered
    \/ CycleUndelivered

\* main(): every invocation of the program builds a new SmartPublisher; a
\* restart of a publisher that has not published yet changes nothing
Restart ==
    /\ last_publish_time # Null
    /\ last_publish_time' = Null
    /\ sent' = {}
    /\ last' = Op("main", None, TRUE)
    /\ UNCHANGED <<pending, scoring, articles, feedback, feedback_seq, now>>

\* a direct call of DatabaseManager.add_feedback
AddFeedback ==
    \E a \in Ids, u \in Users, ft \in FeedbackInputs :
        /\ feedback_seq < MaxFeedback
        /\ feedback' = add_feedback(feedback, feedback_seq, a, u, ft, now)
        /\ feedback_seq' = IF ft \in FeedbackCheck THEN feedback_seq + 1 ELSE feedback_seq
        /\ last' = [Op("add_feedback", a, ft \in FeedbackCheck) EXCEPT !.user = u, !.ftype = ft]
        /\ UNCHANGED <<pending, scoring, articles, now, last_publish_time, sent>>

\* add_feedback called with the likes of one user for one item
AddLike ==
    \E a \in {1}, u \in {"u1"}, ft \in {"like"} :
        /\ feedback_seq < MaxFeedback
        /\ feedback' = add_feedback(feedback, feedback_seq, a, u, ft, now)
        /\ feedback_seq' = feedback_seq + 1
        /\ last' = [Op("add_feedback", a, TRUE) EXCEPT !.user = u, !.ftype = ft]
        /\ UNCHANGED <<pending, scoring, articles, now, last_publish_time, sent>>

\* one publisher process (run_continuous): cycles and the clock
Next ==
    \/ Tick
    \/ PublishCycle

Spec == Init /\ [][Next]_vars

\* the publisher across invocations of the program
SystemNext ==
    \/ Tick
    \/ PublishCycle
    \/ Restart

SystemSpec == Init /\ [][SystemNext]_vars

\* the configurations the feedback processor may be started with
\* (config/keywords.yaml: category_weights, user_preferences)
Configs ==
    {ScoringWeights,
     [ScoringWeights EXCEPT
        !.category_weights = [c \in {"robotics_general", "drones"} |->
                                 IF c = "drones" THEN 1500 ELSE 1000],
        !.user_preferences = [c \in {"robotics_general", "learning_rate"} |->
                                 IF c = "learning_rate" THEN 500 ELSE 200]],
     [ScoringWeights EXCEPT
        !.category_weights = [c \in {"robotics_general"} |-> 1000],
        !.user_preferences = [c \in {"drones"} |-> 1000]]}

ProcessInit ==
    /\ articles = << >>
    /\ feedback = {}
    /\ feedback_seq = 0
    /\ now = 0
    /\ last_publish_time = Null
    /\ last = Op("init", None, TRUE)
    /\ sent = {}
    /\ scoring \in Configs
    /\ pending = [a \in Adapters |-> << >>]

\* mutant: the weights are adjusted before the submission is validated
ProcessFeedback_AdjustsFirst ==
    \E a \in Ids, u \in Users, ft \in ProcessInputs, categories \in CategoryLists :
        LET stored == valid_feedback_type(ft) /\ ft \in FeedbackCheck IN
        /\ feedback_seq < MaxProcess
        /\ feedback' = IF stored THEN add_feedback(feedback, feedback_seq, a, u, ft, now)
                       ELSE feedback
        /\ feedback_seq' = IF stored THEN feedback_seq + 1 ELSE feedback_seq
        /\ scoring' = IF stored THEN after_store(scoring, ft, categories)
                      ELSE adjust_scoring_weights(scoring)
        /\ last' = [Op("process_feedback", a, stored) EXCEPT !.user = u, !.ftype = ft]
        /\ UNCHANGED <<pending, articles, now, last_publish_time, sent>>

\* FeedbackProcessor.process_feedback: validation, add_feedback (whose CHECK
\* may still refuse the type), then the updates of the scoring model
ProcessFeedback ==
    \E a \in Ids, u \in Users, ft \in ProcessInputs, categories \in CategoryLists :
        LET stored == valid_feedback_type(ft) /\ ft \in FeedbackCheck IN
        /\ feedback_seq < MaxProcess
        /\ feedback' = IF stored THEN add_feedback(feedback, feedback_seq, a, u, ft, now)
                       ELSE feedback
        /\ feedback_seq' = IF stored THEN feedback_seq + 1 ELSE feedback_seq
        /\ scoring' = IF stored THEN after_store(scoring, ft, categories) ELSE scoring
        /\ last' = [Op("process_feedback", a, stored) EXCEPT !.user = u, !.ftype = ft]
        /\ UNCHANGED <<pending, articles, now, last_publish_time, sent>>

\* a direct call of ScoringModel.update_user_preferences(category, rating);
\* last.n counts the calls
UpdateUserPreferences ==
    \E category \in {"robotics_general", "drones"}, rating \in 1..5 :
        /\ last.n < MaxProcess
        /\ scoring' = update_user_preferences(scoring, category, rating)
        /\ last' = [Op("update_user_preferences", rating, TRUE) EXCEPT
                      !.ftype = category, !.n = last.n + 1]
        /\ UNCHANGED <<pending, articles, feedback, feedback_seq, now, last_publish_time, sent>>

\* ---------------------------------------------- inputs of the scoring
AgesMinutes == {0, 60, 61, 360, 361, 1440, 1441, 10080, 10081}

TweetData ==
    [likes : {0, 9, 10}, retweets : {0, 4, 5}, replies : {0},
     author_followers : {0, 99, 100, 999, 1000}, content_length : {0, 280},
     categories : {<< >>, <<"drones">>, <<"robotics_general", "drones">>},
     created_at : {Null} \cup {<<0 - m>> : m \in AgesMinutes}]

\* feedback tallies as get_article_feedback returns them
FeedbackTallies ==
    {<< >>, [k \in {"like"} |-> 1], [k \in {"dislike"} |-> 1],
     [k \in {"like", "dislike"} |-> 1]}

\* at most one sub-step fails in a call
FailureSets == {{}} \cup {{x} : x \in SubSteps}

ScoreConfigs ==
    {ScoringWeights,
     [ScoringWeights EXCEPT
        !.category_weights = [c \in {"robotics_general", "drones"} |->
                                 IF c = "drones" THEN 1500 ELSE 100]],
     [ScoringWeights EXCEPT
        !.category_weights = [c \in {"drones"} |-> 0 - 500]]}

ScoreInit ==
    /\ articles = << >>
    /\ feedback = {}
    /\ feedback_seq = 0
    /\ now = 0
    /\ last_publish_time = Null
    /\ last \in [op : {"input"}, arg : TweetData, feedback_data : FeedbackTallies,
                  fails : FailureSets, ret : {0}]
    /\ sent = {}
    /\ scoring \in ScoreConfigs
    /\ pending = [a \in Adapters |-> << >>]

\* the call of calculate_final_score on the input drawn
CalculateFinalScore ==
    /\ last.op = "input"
    /\ last' = [last EXCEPT
                  !.op = "calculate_final_score",
                  !.ret = calculate_final_score(scoring, last.arg, last.feedback_data,
                                                now, last.fails)]
    /\ UNCHANGED <<pending, articles, feedback, feedback_seq, now, last_publish_time, sent, scoring>>

\* an adapter stores one item with the score it computed; the source weight
\* that fetch_from_source applies afterwards changes the Article objects of
\* the result, not the rows
StoreScored ==
    \E i \in Ids, u \in Urls, sc \in AdapterScores :
        /\ articles' = store_items(articles, <<Article(i, u, sc, now)>>)
        /\ last' = [Op("store_items", None, ~url_exists(articles, u))
                      EXCEPT !.url = u, !.n = 1]
        /\ UNCHANGED <<pending, feedback, feedback_seq, now, last_publish_time, sent, scoring>>

\* one run of the score maintenance job
UpdateAllScores ==
    \E signals \in [DOMAIN articles -> StoredSignals] :
        /\ articles # << >>
        /\ articles' = update_all_scores(articles, DOMAIN articles, signals, scoring, now)
        /\ last' = [Op("update_all_scores", None, TRUE) EXCEPT
                      !.n = Cardinality({i \in DOMAIN articles :
                                           articles'[i].score # articles[i].score})]
        /\ UNCHANGED <<pending, feedback, feedback_seq, now, last_publish_time, sent, scoring>>

\* ------------------------------------------------- persistence failures
LedgerOps ==
    {"insert_article", "add_feedback", "update_article_score",
     "mark_article_published", "get_next_article_to_publish", "url_exists"}

\* what the except clause of each ledger operation returns when sqlite
\* raises
on_error(op) ==
    CASE op = "insert_article" -> FALSE
      [] op = "add_feedback" -> FALSE
      [] op = "update_article_score" -> FALSE
      [] op = "mark_article_published" -> FALSE
      [] op = "get_next_article_to_publish" -> None
      [] op = "url_exists" -> FALSE

\* what each ledger operation may return when sqlite does not raise
returns(op) ==
    CASE op = "insert_article" -> {TRUE}
      [] op = "add_feedback" -> {TRUE}
      [] op = "update_article_score" -> {TRUE}
      [] op = "mark_article_published" -> {TRUE, FALSE}
      [] op = "get_next_article_to_publish" -> Ids \cup {None}
      [] op = "url_exists" -> {TRUE, FALSE}

\* a direct call of url_exists
UrlExists ==
    \E u \in Urls :
        /\ last' = [Op("url_exists", None, url_exists(articles, u)) EXCEPT !.url = u]
        /\ UNCHANGED <<pending, articles, feedback, feedback_seq, now, last_publish_time, sent, scoring>>

\* a ledger operation during which sqlite raises: the statement is rolled
\* back, the except clause logs and returns
PersistenceError ==
    \E op \in LedgerOps :
        /\ last' = [Op(op, None, on_error(op)) EXCEPT !.error = "sqlite3.Error"]
        /\ UNCHANGED <<pending, articles, feedback, feedback_seq, now, last_publish_time, sent, scoring>>

\* ------------------------------------------------- adapters side by side
\* the items an adapter brings: any id under any URL, at one score
AdapterItems(t) ==
    {x \in Incoming(t) : x.score = 0}

\* store_articles, first half for one item: if not self.db.url_exists(url)
AdapterCheck(a) ==
    \E art \in AdapterItems(now) :
        /\ pending[a] = << >>
        /\ pending' = [pending EXCEPT ![a] = IF url_exists(articles, art.url)
                                             THEN << >> ELSE <<art>>]
        /\ last' = Op("url_exists", None, url_exists(articles, art.url))
        /\ UNCHANGED <<articles, feedback, feedback_seq, now, last_publish_time, sent, scoring>>

\* store_articles, second half: self.db.insert_article(article)
AdapterInsert(a) ==
    /\ pending[a] # << >>
    /\ articles' = insert_article(articles, pending[a][1])
    /\ pending' = [pending EXCEPT ![a] = << >>]
    /\ last' = Op("insert_article", None, TRUE)
    /\ UNCHANGED <<feedback, feedback_seq, now, last_publish_time, sent, scoring>>

\* ------------------------------------------------------ duplicate sweep
\* mutant: the row with the highest id of each URL group is kept
delete_duplicate_urls_KeepMax(tbl) ==
    LET keep == {i \in DOMAIN tbl :
                    \A j \in DOMAIN tbl : tbl[j].url = tbl[i].url => j <= i}
    IN  [i \in keep |-> tbl[i]]

\* DELETE FROM articles WHERE id NOT IN (SELECT MIN(id) FROM articles
\* GROUP BY url)
delete_duplicate_urls(tbl) ==
    LET keep == {i \in DOMAIN tbl :
                    \A j \in DOMAIN tbl : tbl[j].url = tbl[i].url => i <= j}
    IN  [i \in keep |-> tbl[i]]

\* cursor.rowcount of the DELETE
deleted_count(tbl) ==
    Cardinality(DOMAIN tbl) - Cardinality(DOMAIN delete_duplicate_urls(tbl))

\* a run of the sweep
DeleteDuplicateUrls ==
    /\ articles' = delete_duplicate_urls(articles)
    /\ last' = Op("delete_duplicate_urls", None, deleted_count(articles))
    /\ UNCHANGED <<pending, feedback, feedback_seq, now, last_publish_time, sent, scoring>>

\* ---------------------------------------------------- diverse selection
\* the limits the selection is called with (the caller passes 10)
Limits == {0, 1, 2, 3, 4}

\* the orders in which SELECT ... ORDER BY column DESC may return the rows
\* (rows that tie come in an order SQLite chooses)
OrderByDesc(tbl, column) ==
    {p \in [1..Cardinality(DOMAIN tbl) -> DOMAIN tbl] :
        /\ \A a, b \in DOMAIN p : a # b => p[a] # p[b]
        /\ \A a, b \in DOMAIN p : a < b => tbl[p[a]][column] >= tbl[p[b]][column]}

\* LIMIT ? and rows[:limit]
Take(rows, k) ==
    SubSeq(rows, 1, Min(k, Len(rows)))

\* the seen_ids loop
RECURSIVE unique_rows(_, _)
unique_rows(rows, seen_ids) ==
    IF rows = << >> THEN << >>
    ELSE IF Head(rows) \in seen_ids THEN unique_rows(Tail(rows), seen_ids)
    ELSE <<Head(rows)>> \o unique_rows(Tail(rows), seen_ids \cup {Head(rows)})

\* x placed before the first row whose score is not greater
RECURSIVE InsertByScore(_, _, _)
InsertByScore(tbl, x, rows) ==
    IF rows = << >> THEN <<x>>
    ELSE IF tbl[Head(rows)].score <= tbl[x].score THEN <<x>> \o rows
    ELSE <<Head(rows)>> \o InsertByScore(tbl, x, Tail(rows))

\* rows.sort(key=score, reverse=True): stable
RECURSIVE sort_by_score(_, _)
sort_by_score(tbl, rows) ==
    IF rows = << >> THEN << >>
    ELSE InsertByScore(tbl, Head(rows), sort_by_score(tbl, Tail(rows)))

\* mutant: the two halves are concatenated without the seen_ids loop
get_diverse_articles_NoDedup(tbl, limit) ==
    LET half_limit == limit \div 2 IN
    {Take(sort_by_score(tbl, Take(hs, half_limit) \o Take(rec, half_limit)), limit) :
        hs \in OrderByDesc(tbl, "score"), rec \in OrderByDesc(tbl, "created_at")}

\* the lists of ids the call may return
get_diverse_articles(tbl, limit) ==
    LET half_limit == limit \div 2 IN
    {Take(sort_by_score(tbl,
              unique_rows(Take(hs, half_limit) \o Take(rec, half_limit), {})), limit) :
        hs \in OrderByDesc(tbl, "score"), rec \in OrderByDesc(tbl, "created_at")}

\* a call of get_diverse_articles
GetDiverseArticles ==
    \E limit \in Limits :
        \E r \in get_diverse_articles(articles, limit) :
            /\ last' = [Op("get_diverse_articles", limit, TRUE) EXCEPT !.selected = r]
            /\ UNCHANGED <<pending, articles, feedback, feedback_seq, now, last_publish_time, sent, scoring>>

\* ------------------------------------------------- the continuous loop
\* The loop runs for ever, so its state is kept relative to the clock: after
\* a sleep of d minutes every created_at lies d minutes further back, and a
\* row older than the two-hour window is kept at the first age beyond it.
\* Rows that are published are left out, since no query of the publisher
\* returns them; their ids and URLs then name the items that arrive later.
Elapse(tbl, d) ==
    LET keep == {i \in DOMAIN tbl : tbl[i].published_at = Null}
        floor == 0 - (NewWindowHours * 60 + 1)
    IN  [i \in keep |-> [tbl[i] EXCEPT !.created_at = Max(@ - d, floor)]]

\* last_publish_time after a sleep of d minutes, kept at the interval once
\* the interval has passed
ElapseTime(lpt, d) ==
    IF lpt = Null THEN Null ELSE <<Max(lpt[1] - d, 0 - publish_interval)>>

\* mutant: a failed cycle is followed by the full interval
backoff_FullInterval(success, raised) ==
    IF raised THEN 1 ELSE publish_interval

\* the minutes the loop sleeps after a pass: 60 s after an exception, 300 s
\* after a failed cycle, the interval otherwise
backoff(success, raised) ==
    IF raised THEN 1
    ELSE IF ~success THEN 5
    ELSE publish_interval

\* the state after one pass of the while loop: tbl and lpt as publish_cycle
\* left them, raised when an exception left the try block (raised by a
\* logging call after the cycle), then the sleep; last keeps the URL and
\* the score of the selected item
Pass(tbl, lpt, success, raised, sel, outcome) ==
    /\ articles' = Elapse(tbl, backoff(success, raised))
    /\ last_publish_time' = ElapseTime(lpt, backoff(success, raised))
    /\ last' = [Op("run_continuous", None, success) EXCEPT
                  !.selected = sel, !.delivery = outcome,
                  !.url = IF sel = None THEN None ELSE tbl[sel].url,
                  !.arg = IF sel = None THEN None ELSE tbl[sel].score,
                  !.n = backoff(success, raised),
                  !.error = IF raised THEN "Exception" ELSE "none"]
    /\ UNCHANGED <<pending, scoring, feedback, feedback_seq, now, sent>>

Running ==
    last.op # "KeyboardInterrupt"

\* a pass whose cycle found it is not time to publish
IterationNotTime ==
    /\ Running
    /\ ~should_publish_now(last_publish_time, now)
    /\ \E raised \in BOOLEAN :
          Pass(articles, last_publish_time, TRUE, raised, None, "none")

\* a pass whose cycle found nothing to publish
IterationNothing ==
    /\ Running
    /\ should_publish_now(last_publish_time, now)
    /\ \E batch \in Batches(now), raised \in BOOLEAN :
          LET fetched == store_items(articles, batch) IN
          /\ None \in get_next_article_to_publish(fetched, now)
          /\ Pass(fetched, last_publish_time, TRUE, raised, None, "none")

\* a pass whose cycle delivered an item
IterationDelivered ==
    /\ Running
    /\ should_publish_now(last_publish_time, now)
    /\ \E batch \in Batches(now), raised \in BOOLEAN :
          LET fetched == store_items(articles, batch) IN
          \E sel \in get_next_article_to_publish(fetched, now) \ {None} :
              Pass(mark_article_published(fetched, sel, now), <<now>>, TRUE, raised,
                   sel, "ok")

\* a pass whose cycle selected an item and could not deliver it
IterationUndelivered ==
    /\ Running
    /\ should_publish_now(last_publish_time, now)
    /\ \E batch \in Batches(now), raised \in BOOLEAN,
          outcome \in DeliveryOutcomes \ {"ok"} :
          LET fetched == store_items(articles, batch) IN
          \E sel \in get_next_article_to_publish(fetched, now) \ {None} :
              Pass(fetched, last_publish_time, FALSE, raised, sel, outcome)

\* except KeyboardInterrupt: break
KeyboardInterrupt ==
    /\ Running
    /\ last' = Op("KeyboardInterrupt", None, TRUE)
    /\ UNCHANGED <<pending, scoring, articles, feedback, feedback_seq, now, last_publish_time, sent>>

\* the ledger a publisher may find when it starts: empty, or with the item
\* a cycle stored and did not deliver half an hour earlier
ContinuousInit ==
    /\ articles \in {Elapse(store_items(<< >>, batch), publish_interval) :
                        batch \in Batches(0)}
    /\ feedback = {}
    /\ feedback_seq = 0
    /\ now = 0
    /\ last_publish_time = Null
    /\ last = Op("init", None, TRUE)
    /\ sent = {}
    /\ scoring = ScoringWeights
    /\ pending = [a \in Adapters |-> << >>]

\* ------------------------------------------ the refresh over the sources
\* the enabled sources in the order fetch_all_sources visits them
SourceOrder == <<"reddit", "hackernews">>

\* the ids of two sources do not coincide (Reddit's post ids, hn_<id>): the
\* odd ids stand for those of reddit, the even ids for those of hackernews;
\* a source that fails hands over nothing
SourceBatches(src, t, failed) ==
    IF src \in failed THEN {<< >>}
    ELSE UNION {[1..n -> {x \in Incoming(t) : (x.id % 2 = 1) <=> (src = "reddit")}] :
                   n \in BatchLens}

\* the ledger after the sources were visited in turn: a source that fails
\* stores nothing, its error stays in its own result
RECURSIVE run_sources(_, _, _, _)
run_sources(tbl, sources, batches, failed) ==
    IF sources = << >> THEN tbl
    ELSE run_sources(IF Head(sources) \in failed THEN tbl
                     ELSE store_items(tbl, batches[Head(sources)]),
                     Tail(sources), batches, failed)

\* mutant: the error of a source is copied to the combined result
fetch_all_sources_RaisesError(failed) ==
    LET keys == IF failed = {} THEN {"source_results"} ELSE {"source_results", "error"}
    IN  [k \in keys |->
            CASE k = "source_results" ->
                    [src \in Adapters |-> IF src \in failed THEN "error" ELSE "ok"]
              [] k = "error" -> "error"]

\* the combined result of fetch_all_sources, without its counts and
\* its top_articles: it has no 'error' key
fetch_all_sources(failed) ==
    [k \in {"source_results"} |->
        [src \in Adapters |-> IF src \in failed THEN "error" ELSE "ok"]]

\* publish_cycle with the sources that fail in the refresh and the outcome
\* of the delivery
RefreshCycle ==
    /\ IF ~should_publish_now(last_publish_time, now)
       THEN /\ last' = [Op("publish_cycle", None, TRUE) EXCEPT !.gate = "wait"]
            /\ UNCHANGED <<articles, last_publish_time, sent>>
       ELSE \E failed \in SUBSET Adapters :
            \E reddit \in SourceBatches("reddit", now, failed),
               hackernews \in SourceBatches("hackernews", now, failed),
               outcome \in DeliveryOutcomes :
               LET batches == [src \in Adapters |->
                                  IF src = "reddit" THEN reddit ELSE hackernews]
                   fetch_result == fetch_all_sources(failed)
                   fetched == run_sources(articles, SourceOrder, batches, failed)
               IN  IF "error" \in DOMAIN fetch_result
                   THEN /\ articles' = fetched
                        /\ last' = [Op("publish_cycle", None, FALSE) EXCEPT
                                      !.n = Cardinality(failed),
                                      !.error = fetch_result["error"]]
                        /\ UNCHANGED <<last_publish_time, sent>>
                   ELSE \E sel \in get_next_article_to_publish(fetched, now) :
                           /\ articles' = IF sel # None /\ outcome = "ok"
                                          THEN mark_article_published(fetched, sel, now)
                                          ELSE fetched
                           /\ last_publish_time' = IF sel # None /\ outcome = "ok"
                                                   THEN <<now>> ELSE last_publish_time
                           /\ sent' = IF sel # None /\ outcome = "ok"
                                      THEN sent \cup {sel} ELSE sent
                           /\ last' = [Op("publish_cycle", None,
                                          sel = None \/ outcome = "ok")
                                         EXCEPT !.n = Cardinality(failed),
                                                !.selected = sel,
                                                !.delivery = IF sel = None THEN "none"
                                                             ELSE outcome]
    /\ UNCHANGED <<pending, scoring, feedback, feedback_seq, now>>

\* ---------------------------------------------------- duplicate detection
\* the columns of the articles table (CREATE TABLE and the published_at
\* migration)
ArticleColumns ==
    {"id", "text", "author_id", "author_username", "author_name", "author_followers",
     "likes", "retweets", "replies", "url", "created_at", "score", "topics",
     "categories", "summary", "created_timestamp", "published_at"}

\* titles and texts are strings, written as sequences of characters
Texts ==
    {<<"r", "o", "b", "o", "t">>, <<"R", "o", "b", "o", "t", "s">>,
     <<"d", "r", "o", "n", "e">>}

\* str.lower() on the characters that occur
lower(str) ==
    [k \in 1..Len(str) |-> IF str[k] = "R" THEN "r" ELSE str[k]]

\* the length of the block of equal characters that starts at a[i] and b[j]
RECURSIVE BlockLen(_, _, _, _)
BlockLen(a, b, i, j) ==
    IF i > Len(a) \/ j > Len(b) THEN 0
    ELSE IF a[i] # b[j] THEN 0
    ELSE 1 + BlockLen(a, b, i + 1, j + 1)

\* SequenceMatcher.find_longest_match: the longest block, the earliest in a
\* and then in b among the longest
find_longest_match(a, b) ==
    LET blocks == {<<i, j>> \in (1..Len(a)) \X (1..Len(b)) : TRUE}
        size(p) == BlockLen(a, b, p[1], p[2])
    IN  IF blocks = {} THEN <<1, 1, 0>>
        ELSE LET best == CHOOSE p \in blocks :
                     \A q \in blocks :
                         \/ size(q) < size(p)
                         \/ size(q) = size(p) /\ p[1] < q[1]
                         \/ size(q) = size(p) /\ p[1] = q[1] /\ p[2] <= q[2]
             IN  <<best[1], best[2], size(best)>>

\* the number of matched characters: the longest block, then the same to
\* its left and to its right
RECURSIVE matches(_, _)
matches(a, b) ==
    LET m == find_longest_match(a, b) IN
    IF m[3] = 0 THEN 0
    ELSE m[3]
         + matches(SubSeq(a, 1, m[1] - 1), SubSeq(b, 1, m[2] - 1))
         + matches(SubSeq(a, m[1] + m[3], Len(a)), SubSeq(b, m[2] + m[3], Len(b)))

\* SequenceMatcher(None, a, b).ratio(), in thousandths
ratio(a, b) ==
    IF Len(a) + Len(b) = 0 THEN 1000
    ELSE (2000 * matches(a, b)) \div (Len(a) + Len(b))

\* SELECT title FROM articles ...: the table has no such column, sqlite
\* raises OperationalError and the except clause answers False
title_similarity_exists(tbl, title) ==
    IF "title" \in ArticleColumns
    THEN \E i \in DOMAIN tbl : ratio(lower(title), lower(tbl[i].title)) >= 800
    ELSE FALSE

\* content_preview is Null when none is passed
is_duplicate_content(tbl, title, url, content_preview) ==
    IF url_exists(tbl, url) THEN TRUE
    ELSE IF title_similarity_exists(tbl, title) THEN TRUE
    ELSE IF content_preview # Null
         THEN \E i \in DOMAIN tbl : ratio(lower(content_preview), lower(tbl[i].text)) >= 700
         ELSE FALSE

\* the row of a Hacker News story with its text column, which holds the title
with_text(row, text) ==
    [x \in DOMAIN row \cup {"text"} |-> IF x = "text" THEN text ELSE row[x]]

\* the Hacker News adapter stores one story
StoreTitled ==
    \E i \in Ids, u \in Urls, text \in Texts :
        /\ articles' = IF ~url_exists(articles, u)
                       THEN [insert_article(articles, Article(i, u, 0, now))
                                EXCEPT ![i] = with_text(@, text)]
                       ELSE articles
        /\ last' = [Op("store_items", None, ~url_exists(articles, u))
                      EXCEPT !.url = u, !.n = 1]
        /\ UNCHANGED <<pending, feedback, feedback_seq, now, last_publish_time, sent, scoring>>

\* a call of is_duplicate_content
IsDuplicateContent ==
    \E title \in Texts, u \in Urls, content_preview \in Texts \cup {Null} :
        /\ last' = [op |-> "is_duplicate_content", title |-> title, url |-> u,
                    content_preview |-> content_preview,
                    ret |-> is_duplicate_content(articles, title, u, content_preview)]
        /\ UNCHANGED <<pending, articles, feedback, feedback_seq, now, last_publish_time, sent, scoring>>

\* the ledger under direct calls of its operations and the ingestion path
LedgerNext ==
    \/ Tick
    \/ FetchCycle
    \/ UpdateArticleScore
    \/ MarkArticlePublished
    \/ GetNextArticleToPublish

LedgerSpec == Init /\ [][LedgerNext]_vars

\* the feedback table under submissions
FeedbackNext ==
    \/ AddFeedback

FeedbackSpec == Init /\ [][FeedbackNext]_vars

\* the feedback processor under submissions of any type
ProcessNext ==
    \/ ProcessFeedback

ProcessSpec == ProcessInit /\ [][ProcessNext]_vars

\* the scoring model under rating updates, from any configuration
PreferenceNext ==
    \/ UpdateUserPreferences

PreferenceSpec == ProcessInit /\ [][PreferenceNext]_vars

\* the scoring model under calls with any item, tally and failing sub-step
ScoreNext ==
    \/ CalculateFinalScore

ScoreSpec == ScoreInit /\ [][ScoreNext]_vars

\* the ledger when its calls may fail
FaultNext ==
    \/ FetchCycle
    \/ MarkArticlePublished
    \/ GetNextArticleToPublish
    \/ UrlExists
    \/ PersistenceError

FaultSpec == Init /\ [][FaultNext]_vars

\* two adapter processes storing into the same ledger
AdapterNext ==
    \/ \E a \in Adapters : AdapterCheck(a)
    \/ \E a \in Adapters : AdapterInsert(a)

AdapterSpec == Init /\ [][AdapterNext]_vars

\* the ledger of two adapter processes under publication and the sweep
SweepNext ==
    \/ \E a \in Adapters : AdapterCheck(a)
    \/ \E a \in Adapters : AdapterInsert(a)
    \/ MarkArticlePublished
    \/ GetNextArticleToPublish
    \/ DeleteDuplicateUrls

SweepSpec == Init /\ [][SweepNext]_vars

\* the diverse selection over the ledger under ingestion
DiverseNext ==
    \/ Tick
    \/ FetchCycle
    \/ GetDiverseArticles

DiverseSpec == Init /\ [][DiverseNext]_vars

\* the publisher in continuous mode
Iteration ==
    \/ IterationNotTime
    \/ IterationNothing
    \/ IterationDelivered
    \/ IterationUndelivered

ContinuousNext ==
    \/ IterationNotTime
    \/ IterationNothing
    \/ IterationDelivered
    \/ IterationUndelivered
    \/ KeyboardInterrupt

ContinuousSpec == ContinuousInit /\ [][ContinuousNext]_vars /\ WF_vars(Iteration)

\* the cycles of a publisher whose sources may fail, up to its first
\* delivery and the cycles that wait after it
RefreshNext ==
    \/ RefreshCycle

RefreshSpec == Init /\ [][RefreshNext]_vars

\* duplicate detection over the stored items
DedupNext ==
    \/ StoreTitled
    \/ IsDuplicateContent

DedupSpec == Init /\ [][DedupNext]_vars

\* the scores of the ledger under ingestion and the maintenance job
MaintenanceInit ==
    /\ articles = << >>
    /\ feedback = {}
    /\ feedback_seq = 0
    /\ now = 0
    /\ last_publish_time = Null
    /\ last = Op("init", None, TRUE)
    /\ sent = {}
    /\ scoring \in ScoreConfigs
    /\ pending = [a \in Adapters |-> << >>]

MaintenanceNext ==
    \/ StoreScored
    \/ UpdateAllScores

MaintenanceSpec == MaintenanceInit /\ [][MaintenanceNext]_vars

\* published items under score updates, the maintenance job and feedback
FrameNext ==
    \/ FetchCycle
    \/ MarkArticlePublished
    \/ UpdateArticleScore
    \/ UpdateAllScores
    \/ AddLike

FrameSpec == Init /\ [][FrameNext]_vars

\* ------------------------------------------------------------------ claims
Published(tbl, i) ==
    i \in DOMAIN tbl /\ tbl[i].published_at # Null

IsCycle(l) ==
    l.op = "publish_cycle"

\* C1: once an item is published it stays published under every later
\* ledger operation: its published_at never returns to NULL and
\* get_next_article_to_publish never returns its id again.
C1_PublishedStaysPublished ==
    [][\A i \in Ids : Published(articles, i) =>
          /\ Published(articles', i)
          /\ i \notin get_next_article_to_publish(articles', now')]_vars

\* C2: mark_article_published on an already published item leaves
\* published_at at the value of the first call and reports success.
C2_MarkIdempotent ==
    [][(last'.op = "mark_article_published" /\ Published(articles, last'.arg)) =>
          /\ articles'[last'.arg].published_at = articles[last'.arg].published_at
          /\ last'.ret = TRUE]_vars

NewlyStamped(i) ==
    /\ Published(articles', i)
    /\ (i \notin DOMAIN articles \/ articles[i].published_at # articles'[i].published_at)

\* C4: in a publish cycle only the item whose delivery succeeded gets
\* published_at set; when delivery fails (returns False or raises) the
\* selected item stays unpublished, last_publish_time is unchanged and the
\* cycle returns False.
C4_MarkOnlyAfterDelivery ==
    [][IsCycle(last') =>
          /\ \A i \in Ids : NewlyStamped(i) =>
                 last'.delivery = "ok" /\ last'.selected = i
          /\ last'.delivery \in {"fail", "raise"} =>
                 /\ last'.selected \in DOMAIN articles'
                 /\ articles'[last'.selected].published_at = Null
                 /\ last_publish_time' = last_publish_time
                 /\ last'.ret = FALSE]_vars

\* C4 witness: a cycle whose delivery failed has returned False.
C4_Witness ==
    /\ IsCycle(last)
    /\ last.delivery \in {"fail", "raise"}
    /\ last.ret = FALSE
    /\ articles[last.selected].published_at = Null

\* C5: no item is delivered to the reviewer twice: a cycle never delivers
\* an item that an earlier cycle has delivered.
C5_DeliveredAtMostOnce ==
    [][(IsCycle(last') /\ last'.delivery = "ok") => last'.selected \notin sent]_vars

\* C6 (as claimed): any two successful publications of the system are at
\* least publish_interval minutes apart, restarts of the program included.
C6_MinIntervalSystem ==
    [][(IsCycle(last') /\ last'.delivery = "ok") =>
          \A i \in DOMAIN articles : articles[i].published_at # Null =>
              now - articles[i].published_at[1] >= 30]_vars

\* C6 (amended): a publisher that has published before attempts a delivery
\* only when at least publish_interval minutes have passed since its last
\* successful publication, so two successful publications of one publisher
\* process are at least publish_interval apart.
C6_MinIntervalProcess ==
    [][IsCycle(last') =>
          /\ (last'.delivery # "none" /\ last_publish_time # Null) =>
                 now - last_publish_time[1] >= 30
          /\ last'.delivery = "ok" => last_publish_time' = <<now>>]_vars

\* C6 witness: a publisher that has published before delivers again.
C6_Witness ==
    /\ IsCycle(last)
    /\ last.gate = "elapsed"
    /\ last.delivery = "ok"
    /\ \E i \in DOMAIN articles :
          articles[i].published_at # Null /\ articles[i].published_at # <<now>>

\* C7: a cycle entered when should_publish_now is false returns True and
\* changes nothing: no item stored, selected, delivered or marked, and
\* last_publish_time as before.
C7_NotTimeNoEffect ==
    [][(IsCycle(last') /\ last_publish_time # Null
          /\ now - last_publish_time[1] < 30) =>
          /\ last'.ret = TRUE
          /\ last'.selected = None
          /\ last'.delivery = "none"
          /\ articles' = articles
          /\ sent' = sent
          /\ last_publish_time' = last_publish_time]_vars

\* C7 witness: a cycle has returned through the not-time-yet exit.
C7_Witness ==
    /\ IsCycle(last)
    /\ last.gate = "wait"
    /\ last.ret = TRUE
    /\ last_publish_time # Null
    /\ now - last_publish_time[1] < 30

\* C8: a cycle that is due and gets no item from
\* get_next_article_to_publish returns True, delivers nothing, publishes
\* nothing and leaves last_publish_time alone, so the next cycle is due too.
C8_NothingToPublish ==
    [][(IsCycle(last') /\ last'.gate # "wait" /\ last'.selected = None) =>
          /\ last'.ret = TRUE
          /\ last'.delivery = "none"
          /\ sent' = sent
          /\ \A i \in Ids : ~NewlyStamped(i)
          /\ last_publish_time' = last_publish_time
          /\ should_publish_now(last_publish_time', now')]_vars

\* C8 witness: a due cycle found every stored item published already.
C8_Witness ==
    /\ IsCycle(last)
    /\ last.gate = "elapsed"
    /\ last.selected = None
    /\ DOMAIN articles # {}

UniqueUrls ==
    \A i, j \in DOMAIN articles : articles[i].url = articles[j].url => i = j

RECURSIVE SumOver(_, _)
SumOver(f, S) ==
    IF S = {} THEN 0
    ELSE LET x == CHOOSE y \in S : TRUE IN f[x] + SumOver(f, S \ {x})

\* C10: the feedback table holds at most one row per (article, user); an
\* accepted submission leaves exactly the submitted type for its pair; the
\* per-article counts add up to the number of users who have a row.
C10_OneFeedbackPerUser ==
    /\ \A r1, r2 \in feedback :
          (r1.article_id = r2.article_id /\ r1.user_id = r2.user_id) => r1 = r2
    /\ (last.op = "add_feedback" /\ last.ret) =>
          {r.feedback_type : r \in {x \in feedback :
                x.article_id = last.arg /\ x.user_id = last.user}} = {last.ftype}
    /\ \A a \in Ids :
          LET counts == get_article_feedback(feedback, a) IN
          SumOver(counts, DOMAIN counts) =
              Cardinality({u \in Users : \E r \in feedback :
                              r.article_id = a /\ r.user_id = u})

\* C10 witness: an accepted submission replaced the earlier row of its
\* pair (the only row of the table carries a later AUTOINCREMENT id).
C10_Witness ==
    /\ last.op = "add_feedback"
    /\ last.ret
    /\ Cardinality(feedback) = 1
    /\ \E r \in feedback : r.id > 1 /\ r.feedback_type = last.ftype

\* the feedback vocabulary of the specification
SpecVocabulary ==
    {"like", "dislike", "rating_1", "rating_2", "rating_3", "rating_4", "rating_5",
     "approved", "rejected", "edited", "skipped"}

\* C11: process_feedback with a type outside the vocabulary returns failure
\* and mutates nothing: the feedback table, the category preferences, the
\* category weights and the scoring weights are as before.
C11_InvalidRejected ==
    [][(last'.op = "process_feedback" /\ last'.ftype \notin SpecVocabulary) =>
          /\ last'.ret = FALSE
          /\ feedback' = feedback
          /\ feedback_seq' = feedback_seq
          /\ scoring' = scoring]_vars

\* C11 witness: a malformed rating was refused for a pair that has a row.
C11_Witness ==
    /\ last.op = "process_feedback"
    /\ last.ftype \in {"rating_0", "rating_6", "rating_x", "rating_5_extra"}
    /\ last.ret = FALSE
    /\ \E r \in feedback : r.article_id = last.arg /\ r.user_id = last.user

\* C12: every type of the vocabulary is accepted by process_feedback: a
\* row of that type is stored for the pair and success is reported.
C12_VocabularyAccepted ==
    [][(last'.op = "process_feedback" /\ last'.ftype \in SpecVocabulary) =>
          /\ last'.ret = TRUE
          /\ \E r \in feedback' :
                /\ r.article_id = last'.arg
                /\ r.user_id = last'.user
                /\ r.feedback_type = last'.ftype]_vars

Categories == {"robotics_general", "drones"}

Scored ==
    last.op = "calculate_final_score"

\* the item of the last call does not pass the eligibility filter
FailsFilter(td) ==
    \/ td.likes = 0 /\ td.retweets = 0 /\ td.author_followers < 100
    \/ /\ ~(td.likes = 0 /\ td.retweets = 0)
       /\ (td.likes < 10 \/ td.retweets < 5 \/ td.author_followers < 1000)

\* C14: an item that fails the eligibility filter gets the final score 0.0
\* exactly, whatever its age, its feedback tally and the category weights.
C14_HardGate ==
    (Scored /\ FailsFilter(last.arg)) => last.ret = 0

\* C14 witness: a fresh, liked item of a boosted category was scored 0.0
\* because it misses one threshold.
C14_Witness ==
    /\ Scored
    /\ last.fails = {}
    /\ last.arg.likes = 10 /\ last.arg.retweets = 4 /\ last.arg.author_followers = 1000
    /\ last.arg.created_at = <<0>>
    /\ last.arg.categories = <<"drones">>
    /\ Get(scoring.category_weights, "drones", 1000) > 1000
    /\ Get(last.feedback_data, "like", 0) > 0
    /\ last.ret = 0

ZeroEngagement(td) ==
    td.likes = 0 /\ td.retweets = 0 /\ td.author_followers >= 100

C19_ErrorsPropagate ==
    (last.op \in LedgerOps /\ last.error = "sqlite3.Error") =>
        last.ret \notin returns(last.op)

\* C20: is_duplicate_content returns true whenever the URL is stored, and
\* whenever a stored title has a case-folded similarity of at least 0.8 with
\* the candidate title; it returns false only when there is no URL match, no
\* title match and, with a preview, no content match at 0.7.
C20_DuplicateContent ==
    last.op = "is_duplicate_content" =>
        LET url_match == \E i \in DOMAIN articles : articles[i].url = last.url
            title_match == \E i \in DOMAIN articles :
                ratio(lower(last.title), lower(articles[i].text)) >= 800
            content_match ==
                /\ last.content_preview # Null
                /\ \E i \in DOMAIN articles :
                      ratio(lower(last.content_preview), lower(articles[i].text)) >= 700
        IN  /\ (url_match \/ title_match) => last.ret = TRUE
            /\ last.ret = FALSE => ~url_match /\ ~title_match /\ ~content_match

\* C27: when two adapters run the check and the insert side by side for two
\* items of one URL and different ids, the insert enforces URL uniqueness:
\* the ledger never holds two rows with the same URL.
C27_InsertEnforcesUniqueness ==
    \A u \in Urls : Cardinality({i \in DOMAIN articles : articles[i].url = u}) <= 1

UrlGroup(tbl, u) ==
    {i \in DOMAIN tbl : tbl[i].url = u}

C29_SweepKeepsPublished ==
    [][last'.op = "delete_duplicate_urls" =>
        \A u \in Urls :
            (\E i \in UrlGroup(articles, u) : articles[i].published_at # Null) =>
                \A k \in UrlGroup(articles', u) : articles'[k].published_at # Null]_vars

Range(seq) ==
    {seq[k] : k \in DOMAIN seq}

\* a set of the k rows that come first by the column (all rows when there
\* are fewer)
IsTop(tbl, column, k, S) ==
    /\ S \subseteq DOMAIN tbl
    /\ Cardinality(S) = Min(k, Cardinality(DOMAIN tbl))
    /\ \A i \in S, j \in DOMAIN tbl \ S : tbl[i][column] >= tbl[j][column]

C23_BacklogNeverStarved ==
    [](Running /\ last.ret = TRUE /\ last.error = "none") =>
        \A i \in Ids :
            (i \in DOMAIN articles /\ articles[i].published_at = Null)
                ~> (i \notin DOMAIN articles)

\* C24: in continuous mode the cycle after a failed one comes after the
\* 5-minute backoff and not after the interval, the cycle after an
\* exception comes after 1 minute, the cycle after a failed one is past the
\* interval check and so tries again, and the loop goes on until it is
\* interrupted.
C24_FailureRetried ==
    /\ [][last'.op = "run_continuous" =>
            /\ (last'.ret = FALSE /\ last'.error = "none") =>
                  last'.n = 5 /\ last'.n < publish_interval
            /\ last'.error = "Exception" => last'.n = 1
            /\ last'.ret = FALSE =>
                  /\ should_publish_now(last_publish_time', now')
                  /\ last'.selected \in Unpublished(articles')]_vars
    /\ [](Running => ENABLED Iteration)

\* C24 witness: a pass whose delivery failed has slept five minutes and left
\* the selected item unpublished.
C24_Witness ==
    /\ last.op = "run_continuous"
    /\ last.ret = FALSE
    /\ last.delivery = "fail"
    /\ last.error = "none"
    /\ last.n = 5
    /\ last.selected \in Unpublished(articles)

\* C25: update_user_preferences(category, rating) sets the preference of
\* the category to old + a * ((rating - 1) / 4 - old), old being 1.0 and a
\* being 0.1 when not configured, and sets the weight of the category that
\* calculate_category_score uses to max(0.1, new), from every configuration,
\* the unconfigured one included.
C25_PreferenceUpdate ==
    [][last'.op = "update_user_preferences" =>
        LET c == last'.ftype
            a == Get(scoring.user_preferences, "learning_rate", 100)
            old == Get(scoring.user_preferences, c, 1000)
            new == old + (a * (((last'.arg - 1) * 1000) \div 4 - old)) \div 1000
        IN  /\ Get(scoring'.user_preferences, c, 1000) = new
            /\ Get(scoring'.category_weights, c, 1000) = Max(100, new)]_vars

\* C26: update_article_score, the score maintenance job and add_feedback
\* leave the published state of every item as it is: no published_at goes
\* from null to set or from set to null, and no row disappears.
C26_ScoreAndFeedbackFrame ==
    [][last'.op \in {"update_article_score", "update_all_scores", "add_feedback"} =>
        /\ DOMAIN articles' = DOMAIN articles
        /\ \A i \in DOMAIN articles :
              articles'[i].published_at = articles[i].published_at]_vars

\* C26 witness: the maintenance job has rewritten the score of an item that
\* is published.
C26_Witness ==
    /\ last.op = "update_all_scores"
    /\ last.n >= 1
    /\ \E i \in DOMAIN articles : articles[i].published_at # Null
    /\ feedback # {}

\* likes and ratings of 4 and 5 count as positive feedback
PositiveTypes == {"like", "rating_4", "rating_5"}

\* the share of positive rows among the rows of the feedback table, in
\* thousandths
positive_ratio(tbl) ==
    (Cardinality({r \in tbl : r.feedback_type \in PositiveTypes}) * 1000)
        \div Cardinality(tbl)

\* C28: after a submission is processed the user_feedback weight is
\* multiplied by 1.1 only if the positive ratio of the recorded feedback is
\* above 0.7, by 0.9 only if it is below 0.3, and is left as it was when the
\* ratio lies between.
C28_WeightFollowsRecordedRatio ==
    [][(last'.op = "process_feedback" /\ last'.ret = TRUE) =>
        LET r == positive_ratio(feedback')
            w == scoring.user_feedback
        IN  /\ scoring'.user_feedback = (w * 11) \div 10 => r > 700
            /\ scoring'.user_feedback = (w * 9) \div 10 => r < 300
            /\ (r >= 300 /\ r <= 700) => scoring'.user_feedback = w]_vars

\* C30: the failure of sources in the refresh of publish_cycle does not fail
\* the cycle: the combined result carries no error, and the cycle goes on
\* to select and deliver the next unpublished item when there is one.
C30_SourceFailureTolerated ==
    [][(last'.op = "publish_cycle" /\ last'.n >= 1) =>
        /\ last'.error = "none"
        /\ last'.selected = None => last'.ret = TRUE /\ Unpublished(articles') = {}
        /\ last'.selected # None =>
              /\ last'.delivery \in DeliveryOutcomes
              /\ last'.ret = (last'.delivery = "ok")
              /\ last'.delivery = "ok" => articles'[last'.selected].published_at # Null]_vars

\* C30 witness: a cycle in which a source failed has delivered an item.
C30_Witness ==
    /\ last.op = "publish_cycle"
    /\ last.n >= 1
    /\ last.delivery = "ok"
    /\ last.selected \in DOMAIN articles
    /\ articles[last.selected].published_at # Null
====
